---- MODULE Spec2Model ----
(***************************************************************************)
(* AIOne Aircraft Tracker, src/server.js: the Express application, its      *)
(* token middleware and its route handlers over the three mongoose          *)
(* collections (User, Aircraft, Presentation).                              *)
(*                                                                          *)
(* One action is one request served from the first middleware to the        *)
(* response (or one start-up event, or one event of the environment).       *)
(* Times are in hours.                                                      *)
(***************************************************************************)
EXTENDS Integers, Sequences, FiniteSets, TLC

(* ------------------------------ bounds --------------------------------- *)

\* ObjectIds the process generates in one run (documents ever saved).
MaxId == 3

\* The clock stops here.
MaxTime == 24

\* At most this many requests are served concurrently in one run.
MaxCalls == 4

\* The clock advances in steps of this many hours.
TickSteps == {24}

(* ------------------------- program constants --------------------------- *)

JWT_SECRET == "aione-tracker-secret-key-2024"

\* jwt.sign(..., { expiresIn: '24h' })
TokenTTL == 24

\* bcrypt.hash(password, 10)
SaltRounds == 10

UserRoles == {"admin", "manager", "viewer"}

AircraftStatuses == {"active", "maintenance", "retired"}

(* ------------------------------ inputs --------------------------------- *)

\* A JSON body is a record; a field the client did not send is not in its
\* domain (the handler reads it as undefined).
EmptyBody == <<>>

Has(body, f) == f \in DOMAIN body

\* Keys a client that is not the server may sign with.
OtherSecrets == {"not-the-server-secret"}

\* Salts bcrypt may draw.
Salts == {"salt-1"}

RegisterBodies ==
  { [username |-> "alice", email |-> "a@x.io", password |-> "hunter22", role |-> "admin"],
    [username |-> "bob",   email |-> "b@x.io", password |-> "abc"],
    [username |-> "bob",   email |-> "a@x.io", password |-> "hunter22", role |-> "manager"],
    [username |-> "alice", email |-> "b@x.io", password |-> "hunter22"],
    [username |-> "bob",   email |-> "b@x.io"],
    [username |-> "bob",   password |-> "hunter22"],
    [email |-> "b@x.io",   password |-> "hunter22"],
    [username |-> "bob",   email |-> "b@x.io", password |-> "hunter22", role |-> "root"] }

LoginBodies ==
  { [email |-> "a@x.io", password |-> "hunter22"],
    [email |-> "a@x.io", password |-> "abc"],
    [email |-> "a@x.io"],
    [email |-> "b@x.io", password |-> "abc"] }

(* --------------------------- bcryptjs, jwt ------------------------------ *)

\* bcrypt.hash(s, rounds): a salted one-way digest; it throws on a non-string.
bcryptHash(s, salt) == [alg |-> "bcrypt", rounds |-> SaltRounds, salt |-> salt, of |-> s]

\* bcrypt.compare(s, hash), s a string
bcryptCompare(s, hash) == hash = bcryptHash(s, hash.salt)

\* The HMAC of a payload under a key: equal only for equal payload and key.
Sign(payload, key) == <<"HS256", key, payload>>

\* jwt.sign(payload, secret, { expiresIn: '24h' }) at time t
jwtSign(claims, secret, t) ==
  LET payload == [userId |-> claims.userId, username |-> claims.username,
                  role |-> claims.role, iat |-> t, exp |-> t + TokenTTL]
  IN  [payload |-> payload, sig |-> Sign(payload, secret)]

\* As jwtVerify, but a token is still accepted at the instant it expires.
jwtVerifyLate(token, secret, t) ==
  IF token.sig # Sign(token.payload, secret) THEN "invalid signature"
  ELSE IF t > token.payload.exp THEN "jwt expired"
  ELSE "ok"

\* jwt.verify(token, secret) at time t: "ok" or the error message
jwtVerify(token, secret, t) ==
  IF token.sig # Sign(token.payload, secret) THEN "invalid signature"
  ELSE IF t >= token.payload.exp THEN "jwt expired"
  ELSE "ok"

(* ------------------------------- state --------------------------------- *)

VARIABLES
  proc,           \* "running" | "exited" (process.exit(1))
  listening,      \* app.listen has bound the port
  db,             \* mongoose connection: "connecting" | "connected"
  now,            \* the clock, hours
  nextId,         \* the next ObjectId
  users,          \* collection User
  aircraft,       \* collection Aircraft, in insertion order
  presentations,  \* collection Presentation
  issued,         \* the token a client holds: the last one it received
  req,            \* the request served last (the parts the code read)
  resp,           \* its response
  calls           \* the requests served concurrently, in order of arrival

store == <<users, aircraft, presentations>>

vars == <<proc, listening, db, now, nextId, users, aircraft, presentations, issued, req, resp,
          calls>>

NoHeader == <<>>

NoParam == [kind |-> "none", oid |-> 0]

Request(route, header, body, id) ==
  [route |-> route, header |-> header, body |-> body, id |-> id]

\* res.status(status).json({ error }) and the fields a success adds to it
Response(route, status, error) ==
  [route |-> route, status |-> status, error |-> error,
   ran |-> FALSE,          \* the route's handler was entered
   identity |-> {},        \* req.user, when the middleware set it
   token |-> {},           \* body.token
   users |-> {},           \* user documents of the body (user, data)
   aircraft |-> <<>>,      \* aircraft documents of the body, in order
   presentations |-> {}]   \* presentation documents of the body

Init ==
  /\ proc = "running"
  /\ listening = FALSE
  /\ db = "connecting"
  /\ now = 0
  /\ nextId = 1
  /\ users = {}
  /\ aircraft = <<>>
  /\ presentations = {}
  /\ issued = {}
  /\ req = Request("none", NoHeader, EmptyBody, NoParam)
  /\ resp = Response("none", 0, "")
  /\ calls = <<>>

(* ------------------------------ start-up ------------------------------- *)

\* mongoose.connect(...).then(...)
ConnectOk ==
  /\ proc = "running" /\ db = "connecting"
  /\ db' = "connected"
  /\ UNCHANGED <<proc, listening, now, nextId, users, aircraft, presentations, issued, req, resp, calls>>

\* mongoose.connect(...).catch(err => process.exit(1))
ConnectFail ==
  /\ proc = "running" /\ db = "connecting"
  /\ proc' = "exited"
  /\ listening' = FALSE
  /\ UNCHANGED <<db, now, nextId, users, aircraft, presentations, issued, req, resp, calls>>

\* app.listen(PORT, '0.0.0.0', callback): the port is bound
ListenOk ==
  /\ proc = "running" /\ ~listening
  /\ listening' = TRUE
  /\ UNCHANGED <<proc, db, now, nextId, users, aircraft, presentations, issued, req, resp, calls>>

\* .on('error', err => process.exit(1))
ListenError ==
  /\ proc = "running" /\ ~listening
  /\ proc' = "exited"
  /\ UNCHANGED <<listening, db, now, nextId, users, aircraft, presentations, issued, req, resp, calls>>

\* No exchange is under way: the last response has reached its client.
Idle == resp.route = "none"

\* The server takes a request.
Serving == proc = "running" /\ listening /\ Idle

(* ----------------------------- environment ----------------------------- *)

Tick ==
  /\ proc = "running" /\ Idle
  /\ \E d \in TickSteps : now + d <= MaxTime /\ now' = now + d
  /\ UNCHANGED <<proc, listening, db, nextId, users, aircraft, presentations, issued, req, resp, calls>>

\* A User document removed from the collection by other means than this API.
DeleteUserOutOfBand ==
  /\ Idle
  /\ \E u \in users : users' = users \ {u}
  /\ UNCHANGED <<proc, listening, db, now, nextId, aircraft, presentations, issued, req, resp, calls>>

\* The response reaches the client, which keeps the token of a register or
\* login response in place of the one it held.
Receive ==
  /\ ~Idle
  /\ issued' = IF resp.token # {} THEN resp.token ELSE issued
  /\ req' = Request("none", NoHeader, EmptyBody, NoParam)
  /\ resp' = Response("none", 0, "")
  /\ UNCHANGED <<proc, listening, db, now, nextId, users, aircraft, presentations, calls>>

(* --------------------------- the collections --------------------------- *)

\* The fields of a document a projection or a response keeps.
Project(doc, fields) == [f \in (DOMAIN doc) \cap fields |-> doc[f]]

\* userSchema: required fields and the role enum, checked by save()
UserValid(body, role) ==
  /\ Has(body, "username") /\ Has(body, "email")
  /\ role \in UserRoles

\* As UserDuplicate, but the collection has no unique index.
UserNeverDuplicate(username, email) == FALSE

\* userSchema: unique username, unique email (the collection's indexes)
UserDuplicate(username, email) ==
  \E u \in users : u.username = username \/ u.email = email

\* As FindByEmailOrUsername, but the filter is { email } alone.
FindByEmailOnly(body) ==
  LET byField == {u \in users : Has(body, "email") /\ u.email = body.email}
  IN  IF Has(body, "email") THEN {byField} ELSE {byField, users}

\* User.findOne({ $or: [{ email }, { username }] }): the documents it may
\* return. A condition on an undefined value either matches no document or
\* is dropped from the filter (then it matches every document), depending on
\* the driver's handling of undefined.
FindByEmailOrUsername(body) ==
  LET byField == {u \in users : \/ (Has(body, "email") /\ u.email = body.email)
                                \/ (Has(body, "username") /\ u.username = body.username)}
  IN  IF Has(body, "email") /\ Has(body, "username") THEN {byField}
      ELSE {byField, users}

\* User.findOne({ email })
FindByEmail(body) ==
  LET byField == {u \in users : Has(body, "email") /\ u.email = body.email}
  IN  IF Has(body, "email") THEN {byField} ELSE {byField, users}

(* ---------------------- POST /api/auth/register ------------------------- *)

RegisterRoute == "POST /api/auth/register"

\* user: { id, username, email, role } of the register and login responses
PublicUser(u) ==
  [id |-> u._id, username |-> u.username, email |-> u.email, role |-> u.role]

Register ==
  /\ Serving
  /\ \E body \in RegisterBodies, salt \in Salts :
       LET role == IF Has(body, "role") THEN body.role ELSE "viewer"
           r    == Response(RegisterRoute, 500, "Internal server error")
       IN
       /\ req' = Request(RegisterRoute, NoHeader, body, NoParam)
       /\ IF db # "connected"
          THEN /\ resp' = [r EXCEPT !.ran = TRUE]
               /\ UNCHANGED <<nextId, users>>
          ELSE \E existing \in FindByEmailOrUsername(body) :
            IF existing # {}
            THEN /\ resp' = [Response(RegisterRoute, 400, "User already exists") EXCEPT !.ran = TRUE]
                 /\ UNCHANGED <<nextId, users>>
            ELSE IF \/ ~Has(body, "password")
                    \/ ~UserValid(body, role)
                    \/ UserDuplicate(body.username, body.email)
            THEN /\ resp' = [r EXCEPT !.ran = TRUE]
                 /\ UNCHANGED <<nextId, users>>
            ELSE LET user == [_id |-> nextId, username |-> body.username, email |-> body.email,
                              password |-> bcryptHash(body.password, salt), role |-> role]
                     token == jwtSign([userId |-> user._id, username |-> user.username,
                                       role |-> user.role], JWT_SECRET, now)
                 IN /\ nextId <= MaxId
                    /\ users' = users \cup {user}
                    /\ nextId' = nextId + 1
                    /\ resp' = [Response(RegisterRoute, 201, "") EXCEPT
                                  !.ran = TRUE, !.token = {token}, !.users = {PublicUser(user)}]
  /\ UNCHANGED <<proc, listening, db, now, aircraft, presentations, issued, calls>>

(* ------------------------ POST /api/auth/login -------------------------- *)

LoginRoute == "POST /api/auth/login"

Login ==
  /\ Serving
  /\ \E body \in LoginBodies :
       LET r == Response(LoginRoute, 500, "Internal server error")
           invalid == Response(LoginRoute, 401, "Invalid credentials")
       IN
       /\ req' = Request(LoginRoute, NoHeader, body, NoParam)
       /\ IF db # "connected"
          THEN resp' = [r EXCEPT !.ran = TRUE]
          ELSE \E found \in FindByEmail(body) :
            IF found = {}
            THEN resp' = [invalid EXCEPT !.ran = TRUE]
            ELSE \E user \in found :
              IF ~Has(body, "password")
              THEN resp' = [r EXCEPT !.ran = TRUE]
              ELSE IF ~bcryptCompare(body.password, user.password)
              THEN resp' = [invalid EXCEPT !.ran = TRUE]
              ELSE LET token == jwtSign([userId |-> user._id, username |-> user.username,
                                         role |-> user.role], JWT_SECRET, now)
                   IN resp' = [Response(LoginRoute, 200, "") EXCEPT
                                 !.ran = TRUE, !.token = {token}, !.users = {PublicUser(user)}]
  /\ UNCHANGED <<proc, listening, db, now, nextId, users, aircraft, presentations, issued, calls>>

(* ------------------------- authenticateToken ---------------------------- *)

\* The Authorization header is absent (NoHeader) or the sequence of its parts
\* between spaces: authHeader.split(' ').
TokenOf(header) ==
  IF header = NoHeader THEN {}
  ELSE IF Len(header) >= 2 THEN {header[2]} ELSE {}

\* What a client can make of a token it holds without the server's secret: the
\* payload changed under the old signature, or the payload signed with
\* another key.
Tampered(t) ==
  IF t.payload.role # "admin"
  THEN [t EXCEPT !.payload.role = "admin"]
  ELSE [t EXCEPT !.payload.exp = t.payload.exp + TokenTTL]

Forged(t) == {[t EXCEPT !.sig = Sign(t.payload, k)] : k \in OtherSecrets}

Headers ==
  {NoHeader, <<"Bearer">>}
    \cup {<<"Bearer", t>> : t \in issued}
    \cup {<<"Bearer", Tampered(t)>> : t \in issued}
    \cup {<<"Bearer", f>> : f \in UNION {Forged(t) : t \in issued}}

\* authenticateToken(req, res, next) at time t: whether next() is called, the
\* response when it is not, and req.user when it is.
authenticateToken(header, t) ==
  LET tok == TokenOf(header) IN
  IF tok = {}
  THEN [pass |-> FALSE, status |-> 401,
        error |-> "Access token required. Please log in.", user |-> {}]
  ELSE LET token == CHOOSE x \in tok : TRUE IN
       IF jwtVerify(token, JWT_SECRET, t) # "ok"
       THEN [pass |-> FALSE, status |-> 403,
             error |-> "Invalid or expired token. Please log in again.", user |-> {}]
       ELSE [pass |-> TRUE, status |-> 0, error |-> "", user |-> {token.payload}]

\* The middleware answered: the handler is not entered.
Denied(route, header, auth) ==
  /\ req' = Request(route, header, EmptyBody, NoParam)
  /\ resp' = Response(route, auth.status, auth.error)

\* next(): the handler runs with req.user and answers.
Entered(route, status, error, auth) ==
  [Response(route, status, error) EXCEPT !.ran = TRUE, !.identity = auth.user]

\* req.user of a request that passed the middleware
Caller(auth) == CHOOSE u \in auth.user : TRUE

(* ------------------------------ populate -------------------------------- *)

\* .populate(path, 'username'): the referenced User's _id and username, or
\* nothing (null) when no such User is in the collection.
PopulateUser(id) == {Project(u, {"_id", "username"}) : u \in {x \in users : x._id = id}}

PopulateAircraft(a) == [a EXCEPT !.createdBy = PopulateUser(a.createdBy)]

AircraftById(id) == {i \in 1..Len(aircraft) : aircraft[i]._id = id}

PopulatePresentation(p) ==
  [p EXCEPT !.aircraft = {aircraft[i] : i \in AircraftById(p.aircraft)},
            !.presenter = PopulateUser(p.presenter),
            !.attendees = UNION {PopulateUser(a) : a \in p.attendees}]

\* Model.find(): the collection in its natural (insertion) order
FindAircraft == [i \in 1..Len(aircraft) |-> PopulateAircraft(aircraft[i])]

\* The fields of an update the schema knows replace the document's.
Merge(doc, update) ==
  [f \in DOMAIN doc |-> IF f \in DOMAIN update THEN update[f] ELSE doc[f]]

\* A path parameter :id is a string; mongoose casts it to an ObjectId when it
\* is 24 hexadecimal digits and throws a CastError otherwise.
PathIds == {[kind |-> "hex24", oid |-> n] : n \in 1..MaxId} \cup {[kind |-> "other", oid |-> 0]}

CastsToObjectId(p) == p.kind = "hex24"

(* --------------------------- /api/aircraft ------------------------------ *)

AircraftBodies ==
  { [tailNumber |-> "N12345", model |-> "A320", manufacturer |-> "Airbus", year |-> 2020],
    [tailNumber |-> "N67890", model |-> "B737", manufacturer |-> "Boeing", year |-> 2019,
     status |-> "maintenance"],
    [tailNumber |-> "N67890", model |-> "B737", manufacturer |-> "Boeing", year |-> 2019,
     status |-> "grounded"],
    [tailNumber |-> "N12345", manufacturer |-> "Airbus", year |-> 2020],
    [model |-> "A320", manufacturer |-> "Airbus", year |-> 2020],
    [tailNumber |-> "N67890", model |-> "B737", manufacturer |-> "Boeing", year |-> 0] }

AircraftUpdates ==
  { [status |-> "maintenance"], [tailNumber |-> "N67890"] }

\* !x for a string field and for a number field of a body
MissingStr(body, f) == ~Has(body, f) \/ body[f] = ""

MissingNum(body, f) == ~Has(body, f) \/ body[f] = 0

\* As TailNumberTaken, but the collection has no unique index.
TailNumberNeverTaken(tailNumber, except) == FALSE

\* aircraftSchema: unique tailNumber (the collection's index)
TailNumberTaken(tailNumber, except) ==
  \E i \in 1..Len(aircraft) : i \notin except /\ aircraft[i].tailNumber = tailNumber

GetAircraftRoute == "GET /api/aircraft"

GetAircraft ==
  /\ Serving
  /\ \E header \in Headers :
       LET auth == authenticateToken(header, now) IN
       IF ~auth.pass THEN Denied(GetAircraftRoute, header, auth)
       ELSE /\ req' = Request(GetAircraftRoute, header, EmptyBody, NoParam)
            /\ resp' = IF db # "connected"
                       THEN Entered(GetAircraftRoute, 500, "Failed to retrieve aircraft", auth)
                       ELSE [Entered(GetAircraftRoute, 200, "", auth) EXCEPT !.aircraft = FindAircraft]
  /\ UNCHANGED <<proc, listening, db, now, nextId, users, aircraft, presentations, issued, calls>>

PostAircraftRoute == "POST /api/aircraft"

PostAircraft ==
  /\ Serving
  /\ \E header \in Headers :
       LET auth == authenticateToken(header, now) IN
       IF ~auth.pass
       THEN Denied(PostAircraftRoute, header, auth) /\ UNCHANGED <<nextId, aircraft>>
       ELSE \E body \in AircraftBodies :
         /\ req' = Request(PostAircraftRoute, header, body, NoParam)
         /\ IF \/ MissingStr(body, "tailNumber") \/ MissingStr(body, "model")
               \/ MissingStr(body, "manufacturer") \/ MissingNum(body, "year")
            THEN /\ resp' = Entered(PostAircraftRoute, 400, "Missing required fields", auth)
                 /\ UNCHANGED <<nextId, aircraft>>
            ELSE LET doc == [_id |-> nextId,
                             tailNumber |-> body.tailNumber,
                             model |-> body.model,
                             manufacturer |-> body.manufacturer,
                             year |-> body.year,
                             status |-> IF MissingStr(body, "status") THEN "active" ELSE body.status,
                             specifications |-> IF Has(body, "specifications")
                                                THEN body.specifications ELSE EmptyBody,
                             createdAt |-> now,
                             createdBy |-> Caller(auth).userId]
                 IN
                 IF db # "connected" \/ doc.status \notin AircraftStatuses
                 THEN /\ resp' = Entered(PostAircraftRoute, 500, "Failed to create aircraft", auth)
                      /\ UNCHANGED <<nextId, aircraft>>
                 ELSE IF TailNumberTaken(doc.tailNumber, {})
                 THEN /\ resp' = Entered(PostAircraftRoute, 400,
                                         "Aircraft with this tail number already exists", auth)
                      /\ UNCHANGED <<nextId, aircraft>>
                 ELSE /\ nextId <= MaxId
                      /\ aircraft' = Append(aircraft, doc)
                      /\ nextId' = nextId + 1
                      /\ resp' = [Entered(PostAircraftRoute, 201, "", auth) EXCEPT
                                    !.aircraft = <<PopulateAircraft(doc)>>]
  /\ UNCHANGED <<proc, listening, db, now, users, presentations, issued, calls>>

PutAircraftRoute == "PUT /api/aircraft/:id"

PutAircraft ==
  /\ Serving
  /\ \E header \in Headers :
       LET auth == authenticateToken(header, now) IN
       IF ~auth.pass
       THEN Denied(PutAircraftRoute, header, auth) /\ UNCHANGED aircraft
       ELSE \E id \in PathIds, body \in AircraftUpdates :
         LET at == AircraftById(id.oid) IN
         /\ req' = Request(PutAircraftRoute, header, body, id)
         /\ IF db # "connected" \/ ~CastsToObjectId(id)
            THEN /\ resp' = Entered(PutAircraftRoute, 500, "Failed to update aircraft", auth)
                 /\ UNCHANGED aircraft
            ELSE IF at = {}
            THEN /\ resp' = Entered(PutAircraftRoute, 404, "Aircraft not found", auth)
                 /\ UNCHANGED aircraft
            ELSE LET i == CHOOSE j \in at : TRUE
                     doc == Merge(aircraft[i], body)
                 IN
                 IF TailNumberTaken(doc.tailNumber, {i})
                 THEN /\ resp' = Entered(PutAircraftRoute, 500, "Failed to update aircraft", auth)
                      /\ UNCHANGED aircraft
                 ELSE /\ aircraft' = [aircraft EXCEPT ![i] = doc]
                      /\ resp' = [Entered(PutAircraftRoute, 200, "", auth) EXCEPT
                                    !.aircraft = <<PopulateAircraft(doc)>>]
  /\ UNCHANGED <<proc, listening, db, now, nextId, users, presentations, issued, calls>>

\* The sequence without its i-th element.
RemoveAt(seq, i) == [j \in 1..(Len(seq) - 1) |-> IF j < i THEN seq[j] ELSE seq[j + 1]]

DeleteAircraftRoute == "DELETE /api/aircraft/:id"

DeleteAircraft ==
  /\ Serving
  /\ \E header \in Headers :
       LET auth == authenticateToken(header, now) IN
       IF ~auth.pass
       THEN Denied(DeleteAircraftRoute, header, auth) /\ UNCHANGED aircraft
       ELSE \E id \in PathIds :
         LET at == AircraftById(id.oid) IN
         /\ req' = Request(DeleteAircraftRoute, header, EmptyBody, id)
         /\ IF db # "connected" \/ ~CastsToObjectId(id)
            THEN /\ resp' = Entered(DeleteAircraftRoute, 500, "Failed to delete aircraft", auth)
                 /\ UNCHANGED aircraft
            ELSE IF at = {}
            THEN /\ resp' = Entered(DeleteAircraftRoute, 404, "Aircraft not found", auth)
                 /\ UNCHANGED aircraft
            ELSE /\ aircraft' = RemoveAt(aircraft, CHOOSE j \in at : TRUE)
                 /\ resp' = Entered(DeleteAircraftRoute, 200, "", auth)
  /\ UNCHANGED <<proc, listening, db, now, nextId, users, presentations, issued, calls>>

(* ------------------------- /api/presentations --------------------------- *)

\* The aircraft reference of a body is a string, cast like a path parameter.
AircraftRefs ==
  {[kind |-> "hex24", oid |-> aircraft[i]._id] : i \in 1..Len(aircraft)}
    \cup {[kind |-> "other", oid |-> 0]}

PresentationBodies ==
  { [title |-> "Demo flight", scheduledDate |-> 24, duration |-> 60, aircraft |-> ref]
      : ref \in AircraftRefs }
    \cup { [scheduledDate |-> 24, duration |-> 60, aircraft |-> [kind |-> "other", oid |-> 0]] }

PresentationUpdates == { [status |-> "completed"] }

PresentationById(id) == {p \in presentations : p._id = id}

GetPresentationsRoute == "GET /api/presentations"

GetPresentations ==
  /\ Serving
  /\ \E header \in Headers :
       LET auth == authenticateToken(header, now) IN
       IF ~auth.pass THEN Denied(GetPresentationsRoute, header, auth)
       ELSE /\ req' = Request(GetPresentationsRoute, header, EmptyBody, NoParam)
            /\ resp' = IF db # "connected"
                       THEN Entered(GetPresentationsRoute, 500, "Failed to retrieve presentations", auth)
                       ELSE [Entered(GetPresentationsRoute, 200, "", auth) EXCEPT
                               !.presentations = {PopulatePresentation(p) : p \in presentations}]
  /\ UNCHANGED <<proc, listening, db, now, nextId, users, aircraft, presentations, issued, calls>>

PostPresentationRoute == "POST /api/presentations"

PostPresentation ==
  /\ Serving
  /\ \E header \in Headers :
       LET auth == authenticateToken(header, now) IN
       IF ~auth.pass
       THEN Denied(PostPresentationRoute, header, auth) /\ UNCHANGED <<nextId, presentations>>
       ELSE \E body \in PresentationBodies :
         /\ req' = Request(PostPresentationRoute, header, body, NoParam)
         /\ IF \/ MissingStr(body, "title") \/ MissingNum(body, "scheduledDate")
               \/ MissingNum(body, "duration") \/ ~Has(body, "aircraft")
            THEN /\ resp' = Entered(PostPresentationRoute, 400, "Missing required fields", auth)
                 /\ UNCHANGED <<nextId, presentations>>
            ELSE IF db # "connected" \/ ~CastsToObjectId(body.aircraft)
            THEN /\ resp' = Entered(PostPresentationRoute, 500, "Failed to schedule presentation", auth)
                 /\ UNCHANGED <<nextId, presentations>>
            ELSE LET doc == [_id |-> nextId,
                             title |-> body.title,
                             scheduledDate |-> body.scheduledDate,
                             duration |-> body.duration,
                             aircraft |-> body.aircraft.oid,
                             presenter |-> Caller(auth).userId,
                             attendees |-> IF Has(body, "attendees") THEN body.attendees ELSE {},
                             status |-> "scheduled"]
                 IN /\ nextId <= MaxId
                    /\ presentations' = presentations \cup {doc}
                    /\ nextId' = nextId + 1
                    /\ resp' = [Entered(PostPresentationRoute, 201, "", auth) EXCEPT
                                  !.presentations = {PopulatePresentation(doc)}]
  /\ UNCHANGED <<proc, listening, db, now, users, aircraft, issued, calls>>

PutPresentationRoute == "PUT /api/presentations/:id"

PutPresentation ==
  /\ Serving
  /\ \E header \in Headers :
       LET auth == authenticateToken(header, now) IN
       IF ~auth.pass
       THEN Denied(PutPresentationRoute, header, auth) /\ UNCHANGED presentations
       ELSE \E id \in PathIds, body \in PresentationUpdates :
         LET found == PresentationById(id.oid) IN
         /\ req' = Request(PutPresentationRoute, header, body, id)
         /\ IF db # "connected" \/ ~CastsToObjectId(id)
            THEN /\ resp' = Entered(PutPresentationRoute, 500, "Failed to update presentation", auth)
                 /\ UNCHANGED presentations
            ELSE IF found = {}
            THEN /\ resp' = Entered(PutPresentationRoute, 404, "Presentation not found", auth)
                 /\ UNCHANGED presentations
            ELSE LET old == CHOOSE p \in found : TRUE
                     doc == Merge(old, body)
                 IN /\ presentations' = (presentations \ {old}) \cup {doc}
                    /\ resp' = [Entered(PutPresentationRoute, 200, "", auth) EXCEPT
                                  !.presentations = {PopulatePresentation(doc)}]
  /\ UNCHANGED <<proc, listening, db, now, nextId, users, aircraft, issued, calls>>

DeletePresentationRoute == "DELETE /api/presentations/:id"

DeletePresentation ==
  /\ Serving
  /\ \E header \in Headers :
       LET auth == authenticateToken(header, now) IN
       IF ~auth.pass
       THEN Denied(DeletePresentationRoute, header, auth) /\ UNCHANGED presentations
       ELSE \E id \in PathIds :
         LET found == PresentationById(id.oid) IN
         /\ req' = Request(DeletePresentationRoute, header, EmptyBody, id)
         /\ IF db # "connected" \/ ~CastsToObjectId(id)
            THEN /\ resp' = Entered(DeletePresentationRoute, 500, "Failed to delete presentation", auth)
                 /\ UNCHANGED presentations
            ELSE IF found = {}
            THEN /\ resp' = Entered(DeletePresentationRoute, 404, "Presentation not found", auth)
                 /\ UNCHANGED presentations
            ELSE /\ presentations' = presentations \ found
                 /\ resp' = Entered(DeletePresentationRoute, 200, "", auth)
  /\ UNCHANGED <<proc, listening, db, now, nextId, users, aircraft, issued, calls>>

(* ------------------- /api/users, /api/auth/profile ---------------------- *)

\* As ListedFields, but the projection does not leave the password out.
ListedFieldsAndPassword == {"_id", "username", "email", "role", "createdAt", "password"}

\* The projection 'username email role createdAt' (and _id)
ListedFields == {"_id", "username", "email", "role", "createdAt"}

GetUsersRoute == "GET /api/users"

\* As IsAdmin, but a manager is let in too.
IsAdminOrManager(user) == user.role \in {"admin", "manager"}

\* req.user.role !== 'admin' is false
IsAdmin(user) == user.role = "admin"

GetUsers ==
  /\ Serving
  /\ \E header \in Headers :
       LET auth == authenticateToken(header, now) IN
       IF ~auth.pass THEN Denied(GetUsersRoute, header, auth)
       ELSE /\ req' = Request(GetUsersRoute, header, EmptyBody, NoParam)
            /\ resp' = IF ~IsAdmin(Caller(auth))
                       THEN Entered(GetUsersRoute, 403, "Admin access required", auth)
                       ELSE IF db # "connected"
                       THEN Entered(GetUsersRoute, 500, "Failed to retrieve users", auth)
                       ELSE [Entered(GetUsersRoute, 200, "", auth) EXCEPT
                               !.users = {Project(u, ListedFields) : u \in users}]
  /\ UNCHANGED <<proc, listening, db, now, nextId, users, aircraft, presentations, issued, calls>>

GetProfileRoute == "GET /api/auth/profile"

GetProfile ==
  /\ Serving
  /\ \E header \in Headers :
       LET auth == authenticateToken(header, now) IN
       IF ~auth.pass THEN Denied(GetProfileRoute, header, auth)
       ELSE LET found == {u \in users : u._id = Caller(auth).userId} IN
            /\ req' = Request(GetProfileRoute, header, EmptyBody, NoParam)
            /\ resp' = IF db # "connected"
                       THEN Entered(GetProfileRoute, 500, "Failed to retrieve profile", auth)
                       ELSE IF found = {}
                       THEN Entered(GetProfileRoute, 404, "User not found", auth)
                       ELSE [Entered(GetProfileRoute, 200, "", auth) EXCEPT
                               !.users = {Project(u, ListedFields) : u \in found}]
  /\ UNCHANGED <<proc, listening, db, now, nextId, users, aircraft, presentations, issued, calls>>

(* ------------------ /api/health, /api/auth/health ----------------------- *)

HealthRoutes == {"GET /api/health", "GET /api/auth/health"}

Health ==
  /\ Serving
  /\ \E route \in HealthRoutes :
       /\ req' = Request(route, NoHeader, EmptyBody, NoParam)
       /\ resp' = [Response(route, 200, "") EXCEPT !.ran = TRUE]
  /\ UNCHANGED <<proc, listening, db, now, nextId, users, aircraft, presentations, issued, calls>>

ProtectedRoutes ==
  { GetAircraftRoute, PostAircraftRoute, PutAircraftRoute, DeleteAircraftRoute,
    GetPresentationsRoute, PostPresentationRoute, PutPresentationRoute,
    DeletePresentationRoute, GetUsersRoute, GetProfileRoute }

Next ==
  \/ ConnectOk
  \/ ConnectFail
  \/ ListenOk
  \/ ListenError
  \/ Tick
  \/ DeleteUserOutOfBand
  \/ Receive
  \/ Health
  \/ GetUsers
  \/ GetProfile
  \/ Register
  \/ Login
  \/ GetAircraft
  \/ PostAircraft
  \/ PutAircraft
  \/ DeleteAircraft
  \/ GetPresentations
  \/ PostPresentation
  \/ PutPresentation
  \/ DeletePresentation

Spec == Init /\ [][Next]_vars

(* ------------------------ concurrent requests --------------------------- *)

\* An async handler runs to its next await and resumes when the awaited store
\* operation or hash has completed; other handlers run in between. A call is
\* a request in service: the handler's locals, the await it is suspended at
\* (pc) and, once it has answered ("done"), its response; during is the
\* calls that were in service when it arrived.
Call(route, header, body, id, pc) ==
  [route |-> route, header |-> header, body |-> body, id |-> id, pc |-> pc,
   during |-> {k \in 1..Len(calls) : calls[k].pc # "done"},
   hashedPassword |-> {}, saved |-> {}, status |-> 0, error |-> "", token |-> {}, data |-> <<>>]

Answer(call, status, error) == [call EXCEPT !.pc = "done", !.status = status, !.error = error]

\* A new request is accepted while the process listens.
Accepting == proc = "running" /\ listening /\ Len(calls) < MaxCalls

\* The tokens the clients hold: those of the register responses so far.
CallHeaders ==
  {NoHeader} \cup UNION {{<<"Bearer", t>> : t \in calls[i].token} : i \in 1..Len(calls)}

\* The bodies of the concurrent requests: two registrations with one email
\* and one without a password; the aircraft bodies that name a model and a
\* year; the update that changes the tail number.
CallRegisterBodies ==
  {b \in RegisterBodies : ~Has(b, "password") \/ (Has(b, "role") /\ b.role \in UserRoles)}

CallAircraftBodies == {b \in AircraftBodies : Has(b, "model") /\ b.year # 0}

CallAircraftUpdates == {u \in AircraftUpdates : Has(u, "tailNumber")}

\* POST /api/auth/register up to its first await: User.findOne(...) and the
\* check of its result.
RegisterLookup ==
  /\ Accepting
  /\ \E body \in CallRegisterBodies :
       LET call == Call(RegisterRoute, NoHeader, body, NoParam, "hash") IN
       IF db # "connected"
       THEN calls' = Append(calls, Answer(call, 500, "Internal server error"))
       ELSE \E existing \in FindByEmailOrUsername(body) :
              calls' = Append(calls, IF existing # {}
                                     THEN Answer(call, 400, "User already exists")
                                     ELSE call)
  /\ UNCHANGED <<proc, listening, db, now, nextId, users, aircraft, presentations, issued,
                 req, resp>>

\* await bcrypt.hash(password, 10)
RegisterHash ==
  /\ \E i \in 1..Len(calls), salt \in Salts :
       LET call == calls[i] IN
       /\ call.route = RegisterRoute /\ call.pc = "hash"
       /\ calls' = [calls EXCEPT ![i] =
            IF ~Has(call.body, "password")
            THEN Answer(call, 500, "Internal server error")
            ELSE [call EXCEPT !.pc = "save",
                              !.hashedPassword = {bcryptHash(call.body.password, salt)}]]
  /\ UNCHANGED <<proc, listening, db, now, nextId, users, aircraft, presentations, issued,
                 req, resp>>

\* await user.save(), and the response
RegisterSave ==
  /\ \E i \in 1..Len(calls) :
       LET call == calls[i]
           body == call.body
           role == IF Has(body, "role") THEN body.role ELSE "viewer"
       IN
       /\ call.route = RegisterRoute /\ call.pc = "save"
       /\ IF ~UserValid(body, role) \/ UserDuplicate(body.username, body.email)
          THEN /\ calls' = [calls EXCEPT ![i] = Answer(call, 500, "Internal server error")]
               /\ UNCHANGED <<nextId, users>>
          ELSE LET user == [_id |-> nextId, username |-> body.username, email |-> body.email,
                            password |-> CHOOSE h \in call.hashedPassword : TRUE,
                            role |-> role]
                   token == jwtSign([userId |-> user._id, username |-> user.username,
                                     role |-> user.role], JWT_SECRET, now)
               IN /\ nextId <= MaxId
                  /\ users' = users \cup {user}
                  /\ nextId' = nextId + 1
                  /\ calls' = [calls EXCEPT ![i] =
                       [Answer(call, 201, "") EXCEPT !.saved = {user._id}, !.token = {token}]]
  /\ UNCHANGED <<proc, listening, db, now, aircraft, presentations, issued, req, resp>>

\* POST /api/aircraft up to its second await: the middleware, the check of
\* the required fields and aircraft.save().
PostAircraftSave ==
  /\ Accepting
  /\ \E header \in CallHeaders :
       LET auth == authenticateToken(header, now) IN
       IF ~auth.pass
       THEN /\ calls' = Append(calls, Answer(Call(PostAircraftRoute, header, EmptyBody,
                                                  NoParam, "done"),
                                             auth.status, auth.error))
            /\ UNCHANGED <<nextId, aircraft>>
       ELSE \E body \in CallAircraftBodies :
         LET call == Call(PostAircraftRoute, header, body, NoParam, "find") IN
         IF \/ MissingStr(body, "tailNumber") \/ MissingStr(body, "model")
            \/ MissingStr(body, "manufacturer") \/ MissingNum(body, "year")
         THEN /\ calls' = Append(calls, Answer(call, 400, "Missing required fields"))
              /\ UNCHANGED <<nextId, aircraft>>
         ELSE LET doc == [_id |-> nextId,
                          tailNumber |-> body.tailNumber,
                          model |-> body.model,
                          manufacturer |-> body.manufacturer,
                          year |-> body.year,
                          status |-> IF MissingStr(body, "status") THEN "active" ELSE body.status,
                          specifications |-> IF Has(body, "specifications")
                                             THEN body.specifications ELSE EmptyBody,
                          createdAt |-> now,
                          createdBy |-> Caller(auth).userId]
              IN
              IF db # "connected" \/ doc.status \notin AircraftStatuses
              THEN /\ calls' = Append(calls, Answer(call, 500, "Failed to create aircraft"))
                   /\ UNCHANGED <<nextId, aircraft>>
              ELSE IF TailNumberTaken(doc.tailNumber, {})
              THEN /\ calls' = Append(calls,
                        Answer(call, 400, "Aircraft with this tail number already exists"))
                   /\ UNCHANGED <<nextId, aircraft>>
              ELSE /\ nextId <= MaxId
                   /\ aircraft' = Append(aircraft, doc)
                   /\ nextId' = nextId + 1
                   /\ calls' = Append(calls, [call EXCEPT !.saved = {doc._id}])
  /\ UNCHANGED <<proc, listening, db, now, users, presentations, issued, req, resp>>

\* Aircraft.findById(id).populate('createdBy', 'username'): the document, or
\* nothing (null) when it is not in the collection.
FindByIdPopulated(ids) ==
  LET at == UNION {AircraftById(id) : id \in ids}
  IN  IF at = {} THEN <<>> ELSE <<PopulateAircraft(aircraft[CHOOSE j \in at : TRUE])>>

\* await Aircraft.findById(aircraft._id).populate('createdBy', 'username'),
\* and the response
PostAircraftFind ==
  /\ \E i \in 1..Len(calls) :
       LET call == calls[i] IN
       /\ call.route = PostAircraftRoute /\ call.pc = "find"
       /\ calls' = [calls EXCEPT ![i] =
            [Answer(call, 201, "") EXCEPT !.data = FindByIdPopulated(call.saved)]]
  /\ UNCHANGED <<proc, listening, db, now, nextId, users, aircraft, presentations, issued,
                 req, resp>>

\* PUT /api/aircraft/:id: the middleware and the one store operation
\* Aircraft.findByIdAndUpdate(...), which the store applies atomically.
PutAircraftUpdate ==
  /\ Accepting
  /\ \E header \in CallHeaders :
       LET auth == authenticateToken(header, now) IN
       IF ~auth.pass
       THEN /\ calls' = Append(calls, Answer(Call(PutAircraftRoute, header, EmptyBody,
                                                  NoParam, "done"),
                                             auth.status, auth.error))
            /\ UNCHANGED aircraft
       ELSE \E id \in PathIds, body \in CallAircraftUpdates :
         LET at   == AircraftById(id.oid)
             call == Call(PutAircraftRoute, header, body, id, "done")
         IN
         IF db # "connected" \/ ~CastsToObjectId(id)
         THEN /\ calls' = Append(calls, Answer(call, 500, "Failed to update aircraft"))
              /\ UNCHANGED aircraft
         ELSE IF at = {}
         THEN /\ calls' = Append(calls, Answer(call, 404, "Aircraft not found"))
              /\ UNCHANGED aircraft
         ELSE LET i == CHOOSE j \in at : TRUE
                  doc == Merge(aircraft[i], body)
              IN
              IF TailNumberTaken(doc.tailNumber, {i})
              THEN /\ calls' = Append(calls, Answer(call, 500, "Failed to update aircraft"))
                   /\ UNCHANGED aircraft
              ELSE /\ aircraft' = [aircraft EXCEPT ![i] = doc]
                   /\ calls' = Append(calls, [Answer(call, 200, "") EXCEPT
                                                !.data = <<PopulateAircraft(doc)>>])
  /\ UNCHANGED <<proc, listening, db, now, nextId, users, presentations, issued, req, resp>>

NextConcurrent ==
  \/ ConnectOk
  \/ ConnectFail
  \/ ListenOk
  \/ ListenError
  \/ RegisterLookup
  \/ RegisterHash
  \/ RegisterSave
  \/ PostAircraftSave
  \/ PostAircraftFind
  \/ PutAircraftUpdate

SpecConcurrent == Init /\ [][NextConcurrent]_vars

(* ===================================================================== *)
(* Properties                                                              *)
(* ===================================================================== *)

\* A step that serves a request: the response is in resp', the request in req'.
Serves == Idle /\ ~Idle'

\* The token is one the server issued, as issued.
Genuine(t) == t \in issued

\* The 24 hours of the token have passed.
Expired(t) == now >= t.payload.iat + TokenTTL

MiddlewareErrors ==
  {"Access token required. Please log in.", "Invalid or expired token. Please log in again."}

\* The three cases of the middleware on one served request. With
\* successOnly, a request with a valid token must also end in 200 or 201.
AuthCases(successOnly) ==
  LET tok == TokenOf(req'.header) IN
  /\ req'.header = NoHeader =>
       resp'.status = 401 /\ ~resp'.ran /\ store' = store
  /\ (tok # {} /\ \E t \in tok : ~Genuine(t) \/ Expired(t)) =>
       resp'.status = 403 /\ ~resp'.ran /\ store' = store
  /\ (tok # {} /\ \A t \in tok : Genuine(t) /\ ~Expired(t)) =>
       /\ resp'.ran
       /\ resp'.identity = {t.payload : t \in tok}
       /\ resp'.error \notin MiddlewareErrors
       /\ successOnly => resp'.status \in {200, 201}

\* C1 (as stated): on every protected route, no Authorization header gives
\* 401, a tampered or expired token gives 403, both without running the
\* handler or changing the store, and a valid token reaches the handler with
\* the decoded identity and returns the route's success response.
C1_ValidTokenAlwaysSucceeds ==
  [][(Serves /\ resp'.route \in ProtectedRoutes) => AuthCases(TRUE)]_vars

\* C1 (amended): as above, except that with a valid token the response is the
\* one the route's handler chooses (never one of the middleware's two), which
\* is the success response only when the handler's own checks pass.
C1_Middleware ==
  [][(Serves /\ resp'.route \in ProtectedRoutes) => AuthCases(FALSE)]_vars

\* An expired token of the server's own making is refused with 403.
C1_Witness ==
  /\ resp.route \in ProtectedRoutes /\ resp.status = 403 /\ ~resp.ran
  /\ \E t \in TokenOf(req.header) : Genuine(t) /\ Expired(t)

\* C2: GET /api/users returns the user list only to a valid token whose role
\* is admin; a valid manager or viewer token gets 403 'Admin access
\* required'; without a token it is 401 and with an invalid one 403, from the
\* middleware, never the admin-required error.
C2_AdminOnly ==
  (~Idle /\ resp.route = GetUsersRoute) =>
    LET tok == TokenOf(req.header)
        valid == tok # {} /\ \A t \in tok : Genuine(t) /\ ~Expired(t)
    IN
    /\ resp.status = 200 =>
         /\ valid /\ \A t \in tok : t.payload.role = "admin"
         /\ resp.users = {Project(u, {"_id", "username", "email", "role"}) : u \in users}
    /\ (valid /\ \E t \in tok : t.payload.role \in {"manager", "viewer"}) =>
         resp.status = 403 /\ resp.error = "Admin access required"
    /\ tok = {} =>
         resp.status = 401 /\ resp.error = "Access token required. Please log in."
    /\ (tok # {} /\ ~valid) =>
         resp.status = 403 /\ resp.error = "Invalid or expired token. Please log in again."

\* A manager with a valid token is refused the user list.
C2_Witness ==
  /\ resp.route = GetUsersRoute /\ resp.status = 403 /\ resp.ran
  /\ \E t \in TokenOf(req.header) : Genuine(t) /\ ~Expired(t) /\ t.payload.role = "manager"

\* The stored Users that have the email or the username of a register body.
SameEmailOrUsername(body) ==
  {u \in users : \/ (Has(body, "email") /\ u.email = body.email)
                 \/ (Has(body, "username") /\ u.username = body.username)}

\* C3: a register request that reuses the email or the username of a stored
\* User (whatever its other fields) gets 400 'User already exists' and leaves
\* the stored Users as they were.
C3_DuplicateRegister ==
  [][(Serves /\ req'.route = RegisterRoute /\ SameEmailOrUsername(req'.body) # {}) =>
       (resp'.status = 400 /\ resp'.error = "User already exists" /\ users' = users)]_vars

\* A second register with a stored username and a new email is refused.
C3_Witness ==
  /\ req.route = RegisterRoute /\ resp.status = 400
  /\ Has(req.body, "email") /\ Has(req.body, "username")
  /\ \E u \in users : u.username = req.body.username /\ u.email # req.body.email

\* C4: a register request whose password is shorter than 6 characters is
\* rejected: no 201, no token, no User persisted.
C4_ShortPasswordRejected ==
  [][(Serves /\ req'.route = RegisterRoute
        /\ Has(req'.body, "password") /\ Len(req'.body.password) < 6) =>
       (resp'.status # 201 /\ resp'.token = {} /\ users' = users)]_vars

\* The stored Users a login body names by email, and those among them whose
\* password (the one they registered with) is the body's.
KnownByEmail(body) == {u \in users : Has(body, "email") /\ u.email = body.email}

RightPassword(body) ==
  {u \in KnownByEmail(body) : Has(body, "password") /\ u.password.of = body.password}

\* C5: login with a registered email and its password returns a token that
\* decodes to that User's id, username and role; login with any other
\* password, or with none, returns 401 'Invalid credentials' whether the
\* email is registered or not.
C5_Login ==
  [][(Serves /\ req'.route = LoginRoute /\ db = "connected") =>
       IF RightPassword(req'.body) # {}
       THEN /\ resp'.status = 200
            /\ \E t \in resp'.token, u \in RightPassword(req'.body) :
                 /\ t.payload.userId = u._id
                 /\ t.payload.username = u.username
                 /\ t.payload.role = u.role
       ELSE resp'.status = 401 /\ resp'.error = "Invalid credentials"]_vars

\* The User documents of a response body: user, data of the user routes, and
\* the populated createdBy, presenter and attendees of the others.
UserDocsOf(r) ==
  r.users
    \cup UNION {r.aircraft[i].createdBy : i \in 1..Len(r.aircraft)}
    \cup UNION {p.presenter \cup p.attendees : p \in r.presentations}

PublicFields == {"_id", "id", "username", "email", "role", "createdAt"}

\* C6: no response of any route carries a User's password hash: every User
\* document of a body has public fields only.
C6_NoPasswordInResponses ==
  \A d \in UserDocsOf(resp) : "password" \notin DOMAIN d /\ DOMAIN d \subseteq PublicFields

\* A presentation list whose presenter is resolved to a stored User.
C6_Witness ==
  /\ resp.route = GetPresentationsRoute /\ resp.status = 200
  /\ \E p \in resp.presentations : p.presenter # {}

\* A stored Aircraft has the tail number of the body.
TailNumberStored(body) ==
  Has(body, "tailNumber") /\ \E i \in 1..Len(aircraft) : aircraft[i].tailNumber = body.tailNumber

\* The step appended one Aircraft made from the body: owned by the caller, its
\* status the body's or 'active', and in the list GET /api/aircraft returns.
CreatedFrom(body, header) ==
  /\ Len(aircraft') = Len(aircraft) + 1
  /\ SubSeq(aircraft', 1, Len(aircraft)) = aircraft
  /\ LET d == aircraft'[Len(aircraft')] IN
       /\ d.tailNumber = body.tailNumber
       /\ \A t \in TokenOf(header) : d.createdBy = t.payload.userId
       /\ d.status = (IF Has(body, "status") THEN body.status ELSE "active")
       /\ \E i \in 1..Len(FindAircraft') :
            FindAircraft'[i]._id = d._id /\ FindAircraft'[i].tailNumber = body.tailNumber

\* tailNumber, model, manufacturer and year are present: sent, and none of
\* them empty or zero.
AllRequiredGiven(body) ==
  /\ Has(body, "tailNumber") /\ Has(body, "model") /\ Has(body, "manufacturer") /\ Has(body, "year")
  /\ body.tailNumber # "" /\ body.model # "" /\ body.manufacturer # "" /\ body.year # 0

StatusAllowed(body) == Has(body, "status") => body.status \in AircraftStatuses

NoSuchRecord(r) ==
  IF r.route \in {PutAircraftRoute, DeleteAircraftRoute}
  THEN ~(r.id.kind = "hex24" /\ \E i \in 1..Len(aircraft) : aircraft[i]._id = r.id.oid)
  ELSE ~(r.id.kind = "hex24" /\ \E p \in presentations : p._id = r.id.oid)

\* C8: PUT and DELETE of an aircraft or a presentation by an authenticated
\* caller, with an id that matches no stored record (well-formed or not),
\* return 404 and leave Aircraft and Presentations unchanged.
C8_UnknownIdNotFound ==
  [][(Serves /\ resp'.ran
        /\ req'.route \in {PutAircraftRoute, DeleteAircraftRoute,
                           PutPresentationRoute, DeletePresentationRoute}
        /\ NoSuchRecord(req')) =>
       (resp'.status = 404 /\ aircraft' = aircraft /\ presentations' = presentations)]_vars

\* C9: every protected operation that passes the middleware runs for a User
\* that is in the store with the id, username and role of the token, so the
\* owner of a created Aircraft and the presenter of a created Presentation
\* are stored Users when they are written.
C9_CallerIsStoredUser ==
  (~Idle /\ resp.route \in ProtectedRoutes /\ resp.ran) =>
    /\ \A c \in resp.identity :
         \E u \in users : u._id = c.userId /\ u.username = c.username /\ u.role = c.role
    /\ (resp.route = PostAircraftRoute /\ resp.status = 201) =>
         \A i \in 1..Len(resp.aircraft) : resp.aircraft[i].createdBy # {}
    /\ (resp.route = PostPresentationRoute /\ resp.status = 201) =>
         \A p \in resp.presentations : p.presenter # {}

\* C10: no request other than the health checks is answered before the
\* database connection has succeeded (so none has been when a failed
\* connection ends the process).
C10_NoTrafficBeforeDatabase ==
  (~Idle /\ resp.route \notin HealthRoutes) => db = "connected"

\* C11: GET /api/aircraft returns the stored Aircraft, each with its owner
\* resolved to the stored User's username, ordered by creation time
\* descending: of two returned records, the one created later comes first.
C11_ListNewestFirst ==
  (~Idle /\ resp.route = GetAircraftRoute /\ resp.status = 200) =>
    /\ {resp.aircraft[i]._id : i \in 1..Len(resp.aircraft)}
         = {aircraft[i]._id : i \in 1..Len(aircraft)}
    /\ \A i \in 1..Len(resp.aircraft), k \in 1..Len(aircraft) :
         resp.aircraft[i]._id = aircraft[k]._id =>
           resp.aircraft[i].createdBy
             = {[_id |-> u._id, username |-> u.username] :
                  u \in {x \in users : x._id = aircraft[k].createdBy}}
    /\ \A i, j \in 1..Len(resp.aircraft) :
         resp.aircraft[i].createdAt > resp.aircraft[j].createdAt => i < j

\* The register calls and the aircraft create calls served so far.
RegisterCalls == {i \in 1..Len(calls) : calls[i].route = RegisterRoute}

CreateCalls ==
  {i \in 1..Len(calls) : calls[i].route = PostAircraftRoute /\ Has(calls[i].body, "tailNumber")}

\* Two calls were in service at the same time.
Concurrent(i, j) == i \in calls[j].during \/ j \in calls[i].during

Registered(i) == calls[i].status = 201 /\ calls[i].token # {}

\* Two register calls name the same username or the same email.
ShareUsernameOrEmail(i, j) ==
  \/ Has(calls[i].body, "username") /\ Has(calls[j].body, "username")
       /\ calls[i].body.username = calls[j].body.username
  \/ Has(calls[i].body, "email") /\ Has(calls[j].body, "email")
       /\ calls[i].body.email = calls[j].body.email

\* No two Users share a username or an email, no two Aircraft a tailNumber.
StoreUnique ==
  /\ \A u, v \in users : u # v => u.username # v.username /\ u.email # v.email
  /\ \A i, j \in 1..Len(aircraft) : i # j => aircraft[i].tailNumber # aircraft[j].tailNumber

AtMostOneRegistered ==
  \A i, j \in RegisterCalls :
    (i # j /\ ShareUsernameOrEmail(i, j)) => ~(Registered(i) /\ Registered(j))

\* C12 as stated: under every interleaving of the steps of concurrent
\* register, aircraft create and aircraft update requests, the store never
\* holds two Users with one username or email nor two Aircraft with one
\* tailNumber; of the register requests that share a username or email at most
\* one is answered 201 with a token, and of the create requests that share a
\* tailNumber and were in service at the same time at most one is answered 201.
C12_AtMostOneCreated ==
  /\ StoreUnique
  /\ AtMostOneRegistered
  /\ \A i, j \in CreateCalls :
       (Concurrent(i, j) /\ calls[i].body.tailNumber = calls[j].body.tailNumber)
         => ~(calls[i].status = 201 /\ calls[j].status = 201)

\* The aircraft a create call saved still carries the tailNumber of its body.
HoldsTailNumber(i) ==
  \E k \in 1..Len(aircraft) :
    aircraft[k]._id \in calls[i].saved /\ aircraft[k].tailNumber = calls[i].body.tailNumber

\* C12: under every interleaving of the steps of concurrent register,
\* aircraft create and aircraft update requests, the store never holds two
\* Users with one username or email nor two Aircraft with one tailNumber; of
\* the register requests that share a username or email at most one is answered
\* 201 with a token; and two create requests that share a tailNumber have both
\* saved an aircraft only when an update has since given one of the two
\* aircraft another tailNumber.
C12_Unique ==
  /\ StoreUnique
  /\ AtMostOneRegistered
  /\ \A i, j \in CreateCalls :
       (i # j /\ calls[i].body.tailNumber = calls[j].body.tailNumber
          /\ calls[i].saved # {} /\ calls[j].saved # {})
         => ~(HoldsTailNumber(i) /\ HoldsTailNumber(j))

\* Two register requests that share a username or email were both past the
\* lookup and the hash; the save of one was answered 201, that of the other 500.
C12_Witness ==
  \E i, j \in RegisterCalls :
    /\ Concurrent(i, j) /\ ShareUsernameOrEmail(i, j)
    /\ calls[i].hashedPassword # {} /\ calls[j].hashedPassword # {}
    /\ Registered(i)
    /\ calls[j].status = 500

====
